---- MODULE Spec2Model ----
(***************************************************************************)
(* A model of slight's `run` command (slight/src/commands/run.rs):         *)
(* handle_run, build_store_instance, get_resource and shutdown_signal.     *)
(*                                                                         *)
(* One behaviour is one call of handle_run for one configuration (toml).  *)
(* build_store_instance is called up to three times: for the host         *)
(* (primary) environment, and for the guest (secondary) environment of    *)
(* events and of http.  Every call of the execution engine or of a        *)
(* capability crate that returns a Result may fail.                        *)
(***************************************************************************)
EXTENDS Integers, Sequences, FiniteSets, TLC

VARIABLES
    toml,           \* the configuration: specversion, capability, secret_store
    pc,             \* the position of handle_run
    env,            \* which build_store_instance call is in progress
    idx,            \* the number of declarations the loop of line 116 has consumed
    data,           \* per environment: store.data_mut().data, key -> resource
    linked,         \* per environment: the link_capability calls made, in order
    inspected,      \* per environment: the declarations the match was run on
    stage,          \* per environment: none, building, builder, instance, dropped
    entry,          \* the _start call: not_started, running, returned, trapped
    signal,         \* shutdown_signal: not_awaited, awaiting, received
    close_calls,    \* how many times Http::close was called
    result,         \* none while running; ok, err or panic once handle_run ended
    error,          \* the message of the error handle_run ended with
    failed_at,      \* the position at which handle_run failed
    guarded,        \* per guest: its store was handed over as Arc<Mutex<_>>
    inflight,       \* per guest: the inbound calls now executing inside it
    inbound,        \* how many inbound calls have entered a guest so far
    released,       \* the http resource has released what it holds
    early           \* CTRL+C was delivered while _start was running

vars == <<toml, pc, env, idx, data, linked, inspected, stage, entry, signal,
          close_calls, result, error, failed_at, guarded, inflight, inbound,
          released, early>>

----------------------------------------------------------------------------
(* Bounds *)

\* the longest capability list of a configuration
MaxCaps == 3

\* the most inbound calls (requests, events) that reach the guests in a run
MaxInbound == 2

----------------------------------------------------------------------------
(* Constants of run.rs *)

\* KV_HOST_IMPLEMENTORS with a name another arm matches exactly
KV_HOST_IMPLEMENTORS_Http == {"kv.filesystem", "kv.azblob", "kv.awsdynamodb", "http"}

KV_HOST_IMPLEMENTORS == {"kv.filesystem", "kv.azblob", "kv.awsdynamodb"}
MQ_HOST_IMPLEMENTORS == {"mq.filesystem", "mq.azsbus"}
LOCKD_HOST_IMPLEMENTORS == {"lockd.etcd"}
PUBSUB_HOST_IMPLEMENTORS == {"pubsub.confluent_apache_kafka"}
CONFIGS_HOST_IMPLEMENTORS == {"configs.usersecrets", "configs.envvars"}

\* SupportedSpecVersion with the other version
SupportedSpecVersion_Next == "0.2"

\* the spec version build_store_instance supports
SupportedSpecVersion == "0.1"

\* the names some arm other than the last of the match accepts
AcceptedNames ==
    {"events", "http"} \cup KV_HOST_IMPLEMENTORS \cup MQ_HOST_IMPLEMENTORS
        \cup LOCKD_HOST_IMPLEMENTORS \cup PUBSUB_HOST_IMPLEMENTORS
        \cup CONFIGS_HOST_IMPLEMENTORS

\* the names a configuration may declare: the accepted ones and one other
DeclarableNames == AcceptedNames \cup {"kv.redis"}

SpecVersions == {"0.1", "0.2"}

\* the three environments handle_run builds
Envs == {"host", "events_guest", "http_guest"}

\* the environments built to take inbound calls
Guests == {"events_guest", "http_guest"}

----------------------------------------------------------------------------
(* The configuration (TomlFile): every field is an Option *)

Some(x) == [some |-> TRUE, v |-> x]
NoString == [some |-> FALSE, v |-> ""]
NoList == [some |-> FALSE, v |-> <<>>]

\* the capability lists of at most MaxCaps declarations
CapLists == UNION {[1..n -> DeclarableNames] : n \in 0..MaxCaps}

Tomls ==
    [specversion : {Some(s) : s \in SpecVersions} \cup {NoString},
     capability : {Some(l) : l \in CapLists} \cup {NoList},
     secret_store : BOOLEAN]

\* toml.capability.as_ref().unwrap()
Caps == toml.capability.v

\* caps.iter().any(|cap| cap.name == "events")
events_enabled == \E i \in 1..Len(Caps) : Caps[i] = "events"

\* caps.iter().any(|cap| cap.name == "http")
http_enabled == \E i \in 1..Len(Caps) : Caps[i] = "http"

----------------------------------------------------------------------------
(* The match of build_store_instance, arm by arm in the order of the code *)

\* MatchArm with a last arm that takes every other name for http
MatchArm_Wildcard(resource_type) ==
    IF resource_type = "events" THEN "events"
    ELSE IF resource_type \in KV_HOST_IMPLEMENTORS THEN "kv"
    ELSE IF resource_type \in MQ_HOST_IMPLEMENTORS THEN "mq"
    ELSE IF resource_type \in LOCKD_HOST_IMPLEMENTORS THEN "lockd"
    ELSE IF resource_type \in PUBSUB_HOST_IMPLEMENTORS THEN "pubsub"
    ELSE IF resource_type \in CONFIGS_HOST_IMPLEMENTORS THEN "configs"
    ELSE "http"

MatchArm(resource_type) ==
    IF resource_type = "events" THEN "events"
    ELSE IF resource_type \in KV_HOST_IMPLEMENTORS THEN "kv"
    ELSE IF resource_type \in MQ_HOST_IMPLEMENTORS THEN "mq"
    ELSE IF resource_type \in LOCKD_HOST_IMPLEMENTORS THEN "lockd"
    ELSE IF resource_type \in PUBSUB_HOST_IMPLEMENTORS THEN "pubsub"
    ELSE IF resource_type \in CONFIGS_HOST_IMPLEMENTORS THEN "configs"
    ELSE IF resource_type = "http" THEN "http"
    ELSE "invalid"

\* LinkKey with every arm passing resource_type, as the events arm does
LinkKey_ResourceType(resource_type) ==
    IF MatchArm(resource_type) = "invalid" THEN "none" ELSE resource_type

\* the first argument of link_capability in each arm
LinkKey(resource_type) ==
    CASE MatchArm(resource_type) = "events" -> resource_type
      [] MatchArm(resource_type) = "kv" -> "kv"
      [] MatchArm(resource_type) = "mq" -> "mq"
      [] MatchArm(resource_type) = "lockd" -> "lockd"
      [] MatchArm(resource_type) = "pubsub" -> "pubsub"
      [] MatchArm(resource_type) = "configs" -> "configs"
      [] MatchArm(resource_type) = "http" -> resource_type
      [] OTHER -> "none"

\* LinkType with the pubsub arm linking an Mq
LinkType_PubsubAsMq(resource_type) ==
    CASE MatchArm(resource_type) = "events" -> "Events"
      [] MatchArm(resource_type) = "kv" -> "Kv"
      [] MatchArm(resource_type) = "mq" -> "Mq"
      [] MatchArm(resource_type) = "lockd" -> "Lockd"
      [] MatchArm(resource_type) = "pubsub" -> "Mq"
      [] MatchArm(resource_type) = "configs" -> "Configs"
      [] MatchArm(resource_type) = "http" -> "Http"
      [] OTHER -> "none"

\* LinkType with the http arm linking an Events
LinkType_HttpAsEvents(resource_type) ==
    CASE MatchArm(resource_type) = "events" -> "Events"
      [] MatchArm(resource_type) = "kv" -> "Kv"
      [] MatchArm(resource_type) = "mq" -> "Mq"
      [] MatchArm(resource_type) = "lockd" -> "Lockd"
      [] MatchArm(resource_type) = "pubsub" -> "Pubsub"
      [] MatchArm(resource_type) = "configs" -> "Configs"
      [] MatchArm(resource_type) = "http" -> "Events"
      [] OTHER -> "none"

\* the type parameter of link_capability in each arm
LinkType(resource_type) ==
    CASE MatchArm(resource_type) = "events" -> "Events"
      [] MatchArm(resource_type) = "kv" -> "Kv"
      [] MatchArm(resource_type) = "mq" -> "Mq"
      [] MatchArm(resource_type) = "lockd" -> "Lockd"
      [] MatchArm(resource_type) = "pubsub" -> "Pubsub"
      [] MatchArm(resource_type) = "configs" -> "Configs"
      [] MatchArm(resource_type) = "http" -> "Http"
      [] OTHER -> "none"

\* RequiresSecretStore with the pubsub arm linking without a secret store
RequiresSecretStore_NoPubsub(resource_type) ==
    MatchArm(resource_type) \in {"kv", "mq", "lockd"}

\* the arms that link only `if let Some(ss) = &toml.secret_store`
RequiresSecretStore(resource_type) ==
    MatchArm(resource_type) \in {"kv", "mq", "lockd", "pubsub"}

----------------------------------------------------------------------------
(* Errors *)

NoError == [kind |-> "none"]

\* the bail! of the else branch of each `if let Some(ss)`: the capability the
\* message names and the credential fields it lists
MissingSecretStore(resource_type) ==
    CASE MatchArm(resource_type) = "kv" ->
            [kind |-> "missing_secret_store", capability |-> "kv",
             fields |-> {"AZURE_STORAGE_ACCOUNT", "AZURE_STORAGE_KEY"}]
      [] MatchArm(resource_type) = "mq" ->
            [kind |-> "missing_secret_store", capability |-> "mq",
             fields |-> {"AZURE_SERVICE_BUS_NAMESPACE", "AZURE_POLICY_NAME",
                         "AZURE_POLICY_KEY"}]
      [] MatchArm(resource_type) = "lockd" ->
            [kind |-> "missing_secret_store", capability |-> "lockd",
             fields |-> {"ETCD_ENDPOINT"}]
      [] MatchArm(resource_type) = "pubsub" ->
            [kind |-> "missing_secret_store", capability |-> "mq",
             fields |-> {"AZURE_SERVICE_BUS_NAMESPACE", "AZURE_POLICY_NAME",
                         "AZURE_POLICY_KEY"}]
      [] OTHER -> NoError

\* InvalidUrl with the message of a version that had no pubsub and no http
InvalidUrl_Stale ==
    [kind |-> "invalid_url",
     names |-> {"configs.usersecrets", "configs.envvars", "events",
                "kv.filesystem", "kv.azblob", "kv.awsdynamodb",
                "mq.filesystem", "mq.azsbus", "lockd.etcd"}]

\* the bail! of the last arm: the names the message enumerates
InvalidUrl ==
    [kind |-> "invalid_url",
     names |-> {"configs.usersecrets", "configs.envvars", "events",
                "kv.filesystem", "kv.azblob", "kv.awsdynamodb",
                "mq.filesystem", "mq.azsbus", "lockd.etcd",
                "pubsub.confluent_apache_kafka", "http"}]

UnsupportedSpecVersion == [kind |-> "unsupported toml spec version"]

\* an Err that a call of the engine or of a capability crate returned
CalleeError(call) == [kind |-> "callee", call |-> call]

\* Option::unwrap on None
UnwrapNone(field) == [kind |-> "unwrap_none", field |-> field]

\* the two expect messages of get_resource
KeyAbsent(scheme_name) == [kind |-> "internal_no_key", key |-> scheme_name]
CannotDowncast(scheme_name) == [kind |-> "internal_downcast", key |-> scheme_name]

----------------------------------------------------------------------------
(* The table of a store: store.data_mut().data *)

EmptyTable == [k \in {} |-> NoError]

\* the resource a capability builds from its state: its type, the
\* implementor it was given, the guest environment it has adopted, closed
NewResource(resource_type) ==
    [type |-> LinkType(resource_type), implementor |-> resource_type,
     guest |-> "none", closed |-> FALSE]

\* Builder::link_capability: the entry under key is inserted or overwritten
LinkCapability(table, key, resource) ==
    [k \in DOMAIN table \cup {key} |-> IF k = key THEN resource ELSE table[k]]

\* get_resource::<T>(store, scheme_name): ok, or which expect panics
GetResource(table, scheme_name, T) ==
    IF scheme_name \notin DOMAIN table THEN "absent"
    ELSE IF table[scheme_name].type # T THEN "mismatch"
    ELSE "ok"

\* Events::update_state and Http::update_state: the resource adopts the guest
UpdateState(table, scheme_name, guest) ==
    [table EXCEPT ![scheme_name].guest = guest]

\* Http::close
Close(table, scheme_name) ==
    [table EXCEPT ![scheme_name].closed = TRUE]

----------------------------------------------------------------------------
(* Steps of handle_run *)

\* the step goes on to position next
Goto(next) == pc' = next /\ UNCHANGED <<result, error, failed_at>>

\* handle_run ends here: r is ok, err (a `?` or bail!) or panic
End(r, e) == pc' = "done" /\ result' = r /\ error' = e /\ failed_at' = pc

\* the builder of the call in progress goes out of scope
DropBuilder ==
    /\ stage' = [stage EXCEPT ![env] = "dropped"]
    /\ data' = [data EXCEPT ![env] = EmptyTable]

Init ==
    /\ toml \in Tomls
    /\ pc = "start"
    /\ env = "host"
    /\ idx = 0
    /\ data = [e \in Envs |-> EmptyTable]
    /\ linked = [e \in Envs |-> <<>>]
    /\ inspected = [e \in Envs |-> <<>>]
    /\ stage = [e \in Envs |-> "none"]
    /\ entry = "not_started"
    /\ signal = "not_awaited"
    /\ close_calls = 0
    /\ result = "none"
    /\ error = NoError
    /\ failed_at = "none"
    /\ guarded = [g \in Guests |-> FALSE]
    /\ inflight = [g \in Guests |-> 0]
    /\ inbound = 0
    /\ released = FALSE
    /\ early = FALSE

\* lines 27-31: the shared resource_map is created, the host build begins
Start ==
    /\ pc = "start"
    /\ env' = "host"
    /\ Goto("new_builder")
    /\ UNCHANGED <<toml, idx, data, linked, inspected, stage, entry, signal,
                   close_calls>>
    /\ UNCHANGED <<guarded, inflight, inbound, released, early>>

\* lines 113-114: Builder::new_default()? and builder.link_wasi()?
NewBuilder ==
    /\ pc = "new_builder"
    /\ \E ok \in BOOLEAN :
        IF ok
        THEN /\ stage' = [stage EXCEPT ![env] = "building"]
             /\ Goto("check_version")
        ELSE /\ End("err", CalleeError("Builder::new_default"))
             /\ UNCHANGED stage
    /\ UNCHANGED <<toml, env, idx, data, linked, inspected, entry, signal,
                   close_calls>>
    /\ UNCHANGED <<guarded, inflight, inbound, released, early>>

\* lines 115 and 197-199: the spec version is tested before the loop
CheckSpecVersion ==
    /\ pc = "check_version"
    /\ IF ~toml.specversion.some
       THEN End("panic", UnwrapNone("specversion")) /\ DropBuilder
       ELSE IF toml.specversion.v = SupportedSpecVersion
       THEN Goto("for_caps") /\ UNCHANGED <<stage, data>>
       ELSE End("err", UnsupportedSpecVersion) /\ DropBuilder
    /\ UNCHANGED <<toml, env, idx, linked, inspected, entry, signal,
                   close_calls>>
    /\ UNCHANGED <<guarded, inflight, inbound, released, early>>

\* line 116: toml.capability.as_ref().unwrap(), the loop begins
ForCaps ==
    /\ pc = "for_caps"
    /\ IF ~toml.capability.some
       THEN End("panic", UnwrapNone("capability")) /\ DropBuilder
       ELSE Goto("loop") /\ UNCHANGED <<stage, data>>
    /\ idx' = 0
    /\ UNCHANGED <<toml, env, linked, inspected, entry, signal, close_calls>>
    /\ UNCHANGED <<guarded, inflight, inbound, released, early>>

\* lines 117-195: one iteration: the match on the name of declaration idx+1,
\* then link_capability(..)? or bail!
LinkStep ==
    /\ pc = "loop"
    /\ idx < Len(Caps)
    /\ LET resource_type == Caps[idx + 1] IN
        /\ inspected' = [inspected EXCEPT ![env] = Append(@, resource_type)]
        /\ IF MatchArm(resource_type) = "invalid"
           THEN /\ End("err", InvalidUrl) /\ DropBuilder
                /\ UNCHANGED <<idx, linked>>
           ELSE IF RequiresSecretStore(resource_type) /\ ~toml.secret_store
           THEN /\ End("err", MissingSecretStore(resource_type)) /\ DropBuilder
                /\ UNCHANGED <<idx, linked>>
           ELSE \E ok \in BOOLEAN :
                /\ linked' = [linked EXCEPT ![env] =
                                 Append(@, LinkKey(resource_type))]
                /\ IF ok
                   THEN /\ data' = [data EXCEPT ![env] =
                                LinkCapability(@, LinkKey(resource_type),
                                               NewResource(resource_type))]
                        /\ idx' = idx + 1
                        /\ Goto("loop")
                        /\ UNCHANGED stage
                   ELSE /\ End("err", CalleeError("link_capability"))
                        /\ DropBuilder
                        /\ UNCHANGED idx
    /\ UNCHANGED <<toml, env, entry, signal, close_calls>>
    /\ UNCHANGED <<guarded, inflight, inbound, released, early>>

\* lines 196 and 201: the loop is over, Ok(builder)
LoopEnd ==
    /\ pc = "loop"
    /\ idx = Len(Caps)
    /\ stage' = [stage EXCEPT ![env] = "builder"]
    /\ Goto("build")
    /\ UNCHANGED <<toml, env, idx, data, linked, inspected, entry, signal,
                   close_calls>>
    /\ UNCHANGED <<guarded, inflight, inbound, released, early>>

\* Build with the Err of a guest build skipping the adoption
Build_GuestErrorSkipped ==
    /\ pc = "build"
    /\ \E ok \in BOOLEAN :
        IF ok
        THEN /\ stage' = [stage EXCEPT ![env] = "instance"]
             /\ Goto(CASE env = "host" -> "if_events"
                       [] env = "events_guest" -> "event_handler"
                       [] env = "http_guest" -> "adopt_http")
             /\ UNCHANGED data
        ELSE IF env = "host"
        THEN End("err", CalleeError("build")) /\ DropBuilder
        ELSE /\ Goto(IF env = "events_guest" THEN "if_http" ELSE "get_start")
             /\ DropBuilder
    /\ UNCHANGED <<toml, env, idx, linked, inspected, entry, signal,
                   close_calls>>
    /\ UNCHANGED <<guarded, inflight, inbound, released, early>>

\* lines 32, 44 and 56: builder.build(module)?
Build ==
    /\ pc = "build"
    /\ \E ok \in BOOLEAN :
        IF ok
        THEN /\ stage' = [stage EXCEPT ![env] = "instance"]
             /\ Goto(CASE env = "host" -> "if_events"
                       [] env = "events_guest" -> "event_handler"
                       [] env = "http_guest" -> "adopt_http")
             /\ UNCHANGED data
        ELSE End("err", CalleeError("build")) /\ DropBuilder
    /\ UNCHANGED <<toml, env, idx, linked, inspected, entry, signal,
                   close_calls>>
    /\ UNCHANGED <<guarded, inflight, inbound, released, early>>

\* IfEvents with the guest of events never built
IfEvents_NoGuest ==
    /\ pc = "if_events"
    /\ env' = env
    /\ Goto("if_http")
    /\ UNCHANGED <<toml, idx, data, linked, inspected, stage, entry, signal,
                   close_calls>>
    /\ UNCHANGED <<guarded, inflight, inbound, released, early>>

\* lines 34-43: if events_enabled, the build of the guest of events begins
IfEvents ==
    /\ pc = "if_events"
    /\ IF events_enabled
       THEN env' = "events_guest" /\ Goto("new_builder")
       ELSE env' = env /\ Goto("if_http")
    /\ UNCHANGED <<toml, idx, data, linked, inspected, stage, entry, signal,
                   close_calls>>
    /\ UNCHANGED <<guarded, inflight, inbound, released, early>>

\* line 45: EventHandler::new(&mut store2, &instance2, ..)?
NewEventHandler ==
    /\ pc = "event_handler"
    /\ \E ok \in BOOLEAN :
        IF ok THEN Goto("adopt_events")
        ELSE End("err", CalleeError("EventHandler::new"))
    /\ UNCHANGED <<toml, env, idx, data, linked, inspected, stage, entry,
                   signal, close_calls>>
    /\ UNCHANGED <<guarded, inflight, inbound, released, early>>

\* AdoptEvents with the guest handed over behind no Mutex
AdoptEvents_NoMutex ==
    /\ pc = "adopt_events"
    /\ \E ok \in BOOLEAN :
        IF ok
        THEN /\ data' = [data EXCEPT !["host"] =
                            UpdateState(@, "events", "events_guest")]
             /\ Goto("if_http")
        ELSE End("err", CalleeError("update_state")) /\ UNCHANGED data
    /\ UNCHANGED <<toml, env, idx, linked, inspected, stage, entry, signal,
                   close_calls>>
    /\ UNCHANGED <<guarded, inflight, inbound, released, early>>

\* lines 46-50: get_resource(&mut store, "events"), then update_state(..)?
AdoptEvents ==
    /\ pc = "adopt_events"
    /\ LET found == GetResource(data["host"], "events", "Events") IN
        IF found = "absent"
        THEN End("panic", KeyAbsent("events")) /\ UNCHANGED <<data, guarded>>
        ELSE IF found = "mismatch"
        THEN /\ End("panic", CannotDowncast("events"))
             /\ UNCHANGED <<data, guarded>>
        ELSE \E ok \in BOOLEAN :
            IF ok
            THEN /\ data' = [data EXCEPT !["host"] =
                                UpdateState(@, "events", "events_guest")]
                 /\ guarded' = [guarded EXCEPT !["events_guest"] = TRUE]
                 /\ Goto("if_http")
            ELSE /\ End("err", CalleeError("update_state"))
                 /\ UNCHANGED <<data, guarded>>
    /\ UNCHANGED <<toml, env, idx, linked, inspected, stage, entry, signal,
                   close_calls>>
    /\ UNCHANGED <<inflight, inbound, released, early>>

\* lines 53-55: if http_enabled, the build of the guest of http begins
IfHttp ==
    /\ pc = "if_http"
    /\ IF http_enabled
       THEN env' = "http_guest" /\ Goto("new_builder")
       ELSE env' = env /\ Goto("get_start")
    /\ UNCHANGED <<toml, idx, data, linked, inspected, stage, entry, signal,
                   close_calls>>
    /\ UNCHANGED <<guarded, inflight, inbound, released, early>>

\* AdoptHttp with the guest handed over behind no Mutex
AdoptHttp_NoMutex ==
    /\ pc = "adopt_http"
    /\ \E ok \in BOOLEAN :
        IF ok
        THEN /\ data' = [data EXCEPT !["host"] =
                            UpdateState(@, "http", "http_guest")]
             /\ Goto("get_start")
        ELSE End("err", CalleeError("update_state")) /\ UNCHANGED data
    /\ UNCHANGED <<toml, env, idx, linked, inspected, stage, entry, signal,
                   close_calls>>
    /\ UNCHANGED <<guarded, inflight, inbound, released, early>>

\* lines 57-61: get_resource(&mut store, "http"), then update_state(..)?
AdoptHttp ==
    /\ pc = "adopt_http"
    /\ LET found == GetResource(data["host"], "http", "Http") IN
        IF found = "absent"
        THEN End("panic", KeyAbsent("http")) /\ UNCHANGED <<data, guarded>>
        ELSE IF found = "mismatch"
        THEN /\ End("panic", CannotDowncast("http"))
             /\ UNCHANGED <<data, guarded>>
        ELSE \E ok \in BOOLEAN :
            IF ok
            THEN /\ data' = [data EXCEPT !["host"] =
                                UpdateState(@, "http", "http_guest")]
                 /\ guarded' = [guarded EXCEPT !["http_guest"] = TRUE]
                 /\ Goto("get_start")
            ELSE /\ End("err", CalleeError("update_state"))
                 /\ UNCHANGED <<data, guarded>>
    /\ UNCHANGED <<toml, env, idx, linked, inspected, stage, entry, signal,
                   close_calls>>
    /\ UNCHANGED <<inflight, inbound, released, early>>

\* lines 64-67: get_typed_func(&mut store, "_start")?, then the call begins
GetStart ==
    /\ pc = "get_start"
    /\ \E ok \in BOOLEAN :
        IF ok
        THEN entry' = "running" /\ Goto("call_start")
        ELSE entry' = entry /\ End("err", CalleeError("get_typed_func"))
    /\ UNCHANGED <<toml, env, idx, data, linked, inspected, stage, signal,
                   close_calls>>
    /\ UNCHANGED <<guarded, inflight, inbound, released, early>>

\* CallStart raced against the shutdown signal
CallStart_Cancellable ==
    /\ pc = "call_start"
    /\ IF early
       THEN entry' = "cancelled" /\ Goto("after_start")
       ELSE \E ok \in BOOLEAN :
            IF ok
            THEN entry' = "returned" /\ Goto("after_start")
            ELSE entry' = "trapped" /\ End("err", CalleeError("_start"))
    /\ UNCHANGED <<toml, env, idx, data, linked, inspected, stage, signal,
                   close_calls>>
    /\ UNCHANGED <<guarded, inflight, inbound, released, early>>

\* CallStart with the Err of the call not propagated
CallStart_TrapIgnored ==
    /\ pc = "call_start"
    /\ \E ok \in BOOLEAN :
        /\ entry' = IF ok THEN "returned" ELSE "trapped"
        /\ Goto("after_start")
    /\ UNCHANGED <<toml, env, idx, data, linked, inspected, stage, signal,
                   close_calls>>
    /\ UNCHANGED <<guarded, inflight, inbound, released, early>>

\* line 67: .call(&mut store, ())? returns, or traps
CallStart ==
    /\ pc = "call_start"
    /\ \E ok \in BOOLEAN :
        IF ok
        THEN entry' = "returned" /\ Goto("after_start")
        ELSE entry' = "trapped" /\ End("err", CalleeError("_start"))
    /\ UNCHANGED <<toml, env, idx, data, linked, inspected, stage, signal,
                   close_calls>>
    /\ UNCHANGED <<guarded, inflight, inbound, released, early>>

\* AfterStart with the shutdown signal awaited in every run
AfterStart_AlwaysWait ==
    /\ pc = "after_start"
    /\ signal' = "awaiting"
    /\ Goto("shutdown_signal")
    /\ UNCHANGED <<toml, env, idx, data, linked, inspected, stage, entry,
                   close_calls>>
    /\ UNCHANGED <<guarded, inflight, inbound, released, early>>

\* lines 69-71 and 75: if http_enabled, shutdown_signal() is awaited; if not,
\* Ok(())
AfterStart ==
    /\ pc = "after_start"
    /\ IF http_enabled
       THEN signal' = "awaiting" /\ Goto("shutdown_signal")
       ELSE signal' = signal /\ End("ok", NoError)
    /\ UNCHANGED <<toml, env, idx, data, linked, inspected, stage, entry,
                   close_calls>>
    /\ UNCHANGED <<guarded, inflight, inbound, released, early>>

\* the environment delivers CTRL+C while tokio::signal::ctrl_c() is awaited
CtrlC ==
    /\ pc = "shutdown_signal"
    /\ signal = "awaiting"
    /\ signal' = "received"
    /\ UNCHANGED <<toml, pc, env, idx, data, linked, inspected, stage, entry,
                   close_calls, result, error, failed_at>>
    /\ UNCHANGED <<guarded, inflight, inbound, released, early>>

\* lines 103-105: ctrl_c().await is an Err, the expect panics
CtrlCFails ==
    /\ pc = "shutdown_signal"
    /\ signal = "awaiting"
    /\ End("panic", CalleeError("ctrl_c"))
    /\ UNCHANGED <<toml, env, idx, data, linked, inspected, stage, entry,
                   signal, close_calls>>
    /\ UNCHANGED <<guarded, inflight, inbound, released, early>>

\* ShutdownSignal returning without the signal
ShutdownSignal_NoWait ==
    /\ pc = "shutdown_signal"
    /\ Goto("close")
    /\ UNCHANGED <<toml, env, idx, data, linked, inspected, stage, entry,
                   signal, close_calls>>
    /\ UNCHANGED <<guarded, inflight, inbound, released, early>>

\* lines 101-106: shutdown_signal() returns once the signal was received
ShutdownSignal ==
    /\ pc = "shutdown_signal"
    /\ signal = "received"
    /\ Goto("close")
    /\ UNCHANGED <<toml, env, idx, data, linked, inspected, stage, entry,
                   signal, close_calls>>
    /\ UNCHANGED <<guarded, inflight, inbound, released, early>>

\* CloseHttp with the resource taken out of the table
CloseHttp_Removes ==
    /\ pc = "close"
    /\ data' = [data EXCEPT !["host"] =
                   [k \in DOMAIN @ \ {"http"} |-> @[k]]]
    /\ close_calls' = close_calls + 1
    /\ End("ok", NoError)
    /\ UNCHANGED <<toml, env, idx, linked, inspected, stage, entry, signal>>
    /\ UNCHANGED <<guarded, inflight, inbound, released, early>>

\* lines 72-75: get_resource(&mut store, "http"), close(), Ok(())
CloseHttp ==
    /\ pc = "close"
    /\ LET found == GetResource(data["host"], "http", "Http") IN
        IF found = "absent"
        THEN End("panic", KeyAbsent("http")) /\ UNCHANGED <<data, close_calls>>
        ELSE IF found = "mismatch"
        THEN /\ End("panic", CannotDowncast("http"))
             /\ UNCHANGED <<data, close_calls>>
        ELSE /\ data' = [data EXCEPT !["host"] = Close(@, "http")]
             /\ close_calls' = close_calls + 1
             /\ End("ok", NoError)
    /\ UNCHANGED <<toml, env, idx, linked, inspected, stage, entry, signal>>
    /\ UNCHANGED <<guarded, inflight, inbound, released, early>>

\* the steps handle_run takes by itself
Run ==
    \/ Start
    \/ NewBuilder
    \/ CheckSpecVersion
    \/ ForCaps
    \/ LinkStep
    \/ LoopEnd
    \/ Build
    \/ IfEvents
    \/ NewEventHandler
    \/ AdoptEvents
    \/ IfHttp
    \/ AdoptHttp
    \/ GetStart
    \/ CallStart
    \/ AfterStart
    \/ ShutdownSignal
    \/ CloseHttp

Next == Run \/ CtrlC \/ CtrlCFails

Spec == Init /\ [][Next]_vars

\* handle_run is polled to completion: a step it can take is taken
FairSpec == Spec /\ WF_vars(Run)

----------------------------------------------------------------------------
(* The capabilities at work while handle_run runs: inbound calls into the
   guests, the release that follows close, CTRL+C during _start *)

\* the key of the host resource that adopts guest g
GuestKey(g) == IF g = "events_guest" THEN "events" ELSE "http"

\* an inbound call (an event, a request) enters guest g: the resource has
\* adopted g and is not closed; the caller locks the mutex g sits behind
InboundBegin(g) ==
    /\ result = "none"
    /\ entry # "not_started"
    /\ GuestKey(g) \in DOMAIN data["host"]
    /\ data["host"][GuestKey(g)].guest = g
    /\ ~data["host"][GuestKey(g)].closed
    /\ inbound < MaxInbound
    /\ guarded[g] => inflight[g] = 0
    /\ inflight' = [inflight EXCEPT ![g] = @ + 1]
    /\ inbound' = inbound + 1
    /\ UNCHANGED <<toml, pc, env, idx, data, linked, inspected, stage, entry,
                   signal, close_calls, result, error, failed_at, guarded,
                   released, early>>

\* an inbound call returns from guest g and unlocks it
InboundEnd(g) ==
    /\ inflight[g] > 0
    /\ inflight' = [inflight EXCEPT ![g] = @ - 1]
    /\ UNCHANGED <<toml, pc, env, idx, data, linked, inspected, stage, entry,
                   signal, close_calls, result, error, failed_at, guarded,
                   inbound, released, early>>

\* the closed http resource releases what it holds, its guest included, once
\* no call holds the mutex of the guest
Release ==
    /\ "http" \in DOMAIN data["host"]
    /\ data["host"]["http"].closed
    /\ ~released
    /\ guarded["http_guest"] => inflight["http_guest"] = 0
    /\ released' = TRUE
    /\ UNCHANGED <<toml, pc, env, idx, data, linked, inspected, stage, entry,
                   signal, close_calls, result, error, failed_at, guarded,
                   inflight, inbound, early>>

\* CTRL+C is delivered while _start runs: handle_run is inside the call of
\* line 67 and awaits no signal
CtrlCDuringStart ==
    /\ pc = "call_start"
    /\ entry = "running"
    /\ ~early
    /\ early' = TRUE
    /\ UNCHANGED <<toml, pc, env, idx, data, linked, inspected, stage, entry,
                   signal, close_calls, result, error, failed_at, guarded,
                   inflight, inbound, released>>

\* what the capabilities and the environment do
Serve ==
    \/ \E g \in Guests : InboundBegin(g)
    \/ \E g \in Guests : InboundEnd(g)
    \/ Release
    \/ CtrlCDuringStart

\* handle_run together with the inbound calls and the signals
ServeSpec == Init /\ [][Next \/ Serve]_vars

----------------------------------------------------------------------------
(* What the claims speak of *)

\* the canonical key the claims give each accepted name
CanonicalKey(name) ==
    CASE name = "events" -> "events"
      [] name \in {"kv.filesystem", "kv.azblob", "kv.awsdynamodb"} -> "kv"
      [] name \in {"mq.filesystem", "mq.azsbus"} -> "mq"
      [] name = "lockd.etcd" -> "lockd"
      [] name = "pubsub.confluent_apache_kafka" -> "pubsub"
      [] name \in {"configs.usersecrets", "configs.envvars"} -> "configs"
      [] name = "http" -> "http"
      [] OTHER -> "unknown"

\* the capability kind the claims expect under each canonical key
ExpectedType(key) ==
    CASE key = "events" -> "Events"
      [] key = "kv" -> "Kv"
      [] key = "mq" -> "Mq"
      [] key = "lockd" -> "Lockd"
      [] key = "pubsub" -> "Pubsub"
      [] key = "configs" -> "Configs"
      [] key = "http" -> "Http"
      [] OTHER -> "unknown"

\* the kinds that need a secret store
SecretStoreKeys == {"kv", "mq", "lockd", "pubsub"}

\* the build of environment e returned a Builder
Returned(e) == stage[e] \in {"builder", "instance"}

\* the resource of the host under key has adopted the guest environment
Adopted(key, guest) ==
    /\ key \in DOMAIN data["host"]
    /\ data["host"][key].guest = guest
    /\ stage[guest] = "instance"

\* the positions of handle_run before the entry point is looked up
BeforeStart ==
    {"start", "new_builder", "check_version", "for_caps", "loop", "build",
     "if_events", "event_handler", "adopt_events", "if_http", "adopt_http"}

----------------------------------------------------------------------------
(* C1 *)

\* C1: _start is invoked only after, for each declared async capability
\* (events, http), a guest environment was built and adopted by the host's
\* resource of that kind: whenever the entry point has been invoked, each
\* declared async capability's host resource holds its guest.
C1_EntryAfterAdoption ==
    entry # "not_started" =>
        /\ events_enabled => Adopted("events", "events_guest")
        /\ http_enabled => Adopted("http", "http_guest")

C1_Witness ==
    /\ entry = "running"
    /\ events_enabled
    /\ http_enabled
    /\ Adopted("events", "events_guest")
    /\ Adopted("http", "http_guest")

----------------------------------------------------------------------------
(* C2 *)

\* some declaration needs a secret store and none is configured
SecretStoreMissing ==
    /\ toml.capability.some
    /\ ~toml.secret_store
    /\ \E i \in 1..Len(Caps) : CanonicalKey(Caps[i]) \in SecretStoreKeys

\* the keys of the first n declarations, in order
KeysOfFirst(n) == [i \in 1..n |-> CanonicalKey(Caps[i])]

\* C2 as claimed: when a declaration needs a secret store and none is
\* configured, build_store_instance fails and no table entry has been
\* inserted, also when accepted capabilities are declared before it.
C2_NothingInserted ==
    (result = "err" /\ error.kind = "missing_secret_store") =>
        linked[env] = <<>>

\* C2 as amended: when a declaration needs a secret store and none is
\* configured, no build returns a Builder and the run never succeeds nor
\* reaches the entry point; when the build fails on that declaration, the
\* builder is discarded together with its table, but link_capability has
\* inserted one entry for each declaration before the offending one.
C2_FailsAfterEarlierLinks ==
    /\ SecretStoreMissing =>
        /\ \A e \in Envs : ~Returned(e)
        /\ entry = "not_started"
        /\ result # "ok"
    /\ (result = "err" /\ error.kind = "missing_secret_store") =>
        /\ SecretStoreMissing
        /\ stage[env] = "dropped"
        /\ data[env] = EmptyTable
        /\ idx < Len(Caps)
        /\ CanonicalKey(Caps[idx + 1]) \in SecretStoreKeys
        /\ linked[env] = KeysOfFirst(idx)
        /\ \A i \in 1..idx : CanonicalKey(Caps[i]) \notin SecretStoreKeys

C2_Witness ==
    /\ result = "err"
    /\ error.kind = "missing_secret_store"
    /\ Len(linked[env]) > 0
    /\ data[env] = EmptyTable

----------------------------------------------------------------------------
(* C3 *)

\* the errors of resolution: the two bail! of the match
ResolutionFailed ==
    result = "err" /\ error.kind \in {"missing_secret_store", "invalid_url"}

\* C3 as claimed: every declaration is resolved before any capability is
\* linked, and no link_capability step occurs in a build in which some
\* declaration fails resolution.
C3_ResolveAllThenLink ==
    /\ \A e \in Envs : linked[e] # <<>> => Len(inspected[e]) = Len(Caps)
    /\ ResolutionFailed => linked[env] = <<>>

\* C3 as amended: declarations are resolved and linked one at a time in
\* declaration order, each resolved immediately before it is linked: the
\* link_capability steps of a build are for a prefix of the declarations,
\* each an accepted name whose secret store, if it needs one, is configured,
\* and in a build in which a declaration fails resolution they are exactly
\* the declarations before the first one that fails.
C3_ResolveThenLinkEach ==
    /\ \A e \in Envs :
        /\ Len(inspected[e]) <= Len(Caps)
        /\ inspected[e] = [i \in 1..Len(inspected[e]) |-> Caps[i]]
        /\ Len(linked[e]) <= Len(inspected[e])
        /\ Len(inspected[e]) <= Len(linked[e]) + 1
        /\ \A i \in 1..Len(linked[e]) :
            /\ Caps[i] \in AcceptedNames
            /\ CanonicalKey(Caps[i]) \in SecretStoreKeys => toml.secret_store
    /\ ResolutionFailed =>
        /\ Len(inspected[env]) = Len(linked[env]) + 1
        /\ LET name == Caps[Len(inspected[env])] IN
            \/ name \notin AcceptedNames
            \/ CanonicalKey(name) \in SecretStoreKeys /\ ~toml.secret_store

C3_Witness ==
    /\ ResolutionFailed
    /\ Len(linked[env]) = 2
    /\ Len(inspected[env]) = 3

----------------------------------------------------------------------------
(* C4 *)

\* C4: when the spec version is not "0.1", build_store_instance fails at
\* once: no declaration is inspected, no table entry is inserted or changed
\* and no Builder is returned.
C4_UnsupportedVersionFailsFirst ==
    (toml.specversion.some /\ toml.specversion.v # "0.1") =>
        /\ \A e \in Envs :
            /\ inspected[e] = <<>>
            /\ linked[e] = <<>>
            /\ data[e] = EmptyTable
            /\ ~Returned(e)
        /\ pc \in {"start", "new_builder", "check_version", "done"}
        /\ pc = "done" =>
            /\ result = "err"
            /\ failed_at \in {"new_builder", "check_version"}
            /\ failed_at = "check_version" => error = UnsupportedSpecVersion

C4_Witness ==
    /\ toml.specversion.some
    /\ toml.specversion.v # "0.1"
    /\ Len(Caps) > 0
    /\ result = "err"
    /\ error = UnsupportedSpecVersion
    /\ stage["host"] = "dropped"

----------------------------------------------------------------------------
(* C5 *)

\* C5: a successful build makes one link_capability call for each declared
\* name, under the canonical key of that name, the table holds an entry
\* under exactly these keys, and get_resource by that key finds a resource
\* of the expected kind.
C5_OneEntryPerDeclaration ==
    \A e \in Envs : Returned(e) =>
        /\ linked[e] = KeysOfFirst(Len(Caps))
        /\ DOMAIN data[e] = {CanonicalKey(Caps[i]) : i \in 1..Len(Caps)}
        /\ \A i \in 1..Len(Caps) :
            /\ Caps[i] \in AcceptedNames
            /\ GetResource(data[e], CanonicalKey(Caps[i]),
                           ExpectedType(CanonicalKey(Caps[i]))) = "ok"

C5_Witness ==
    /\ Returned("host")
    /\ Len(Caps) >= 2
    /\ CanonicalKey(Caps[1]) # CanonicalKey(Caps[2])
    /\ Cardinality(DOMAIN data["host"]) >= 2

----------------------------------------------------------------------------
(* C6 *)

\* C6: a run that does not declare http never awaits the shutdown signal and
\* never calls close: once the entry point has returned, its next step ends
\* the run with success.
C6_NoHttpNoWait ==
    ~http_enabled =>
        /\ signal = "not_awaited"
        /\ close_calls = 0
        /\ pc \notin {"shutdown_signal", "close"}
        /\ entry = "returned" =>
            /\ pc \in {"after_start", "done"}
            /\ pc = "done" => result = "ok"

C6_Witness ==
    /\ ~http_enabled
    /\ events_enabled
    /\ entry = "returned"
    /\ result = "ok"
    /\ signal = "not_awaited"

----------------------------------------------------------------------------
(* C7 *)

\* the order of a run that declares http: close is called at most once, only
\* after the entry point returned and the signal was received; the signal is
\* awaited only after the entry point returned; the run succeeds only after
\* close
C7_Order ==
    /\ close_calls <= 1
    /\ close_calls = 1 =>
        /\ entry = "returned"
        /\ signal = "received"
        /\ result = "ok"
    /\ signal # "not_awaited" => http_enabled /\ entry = "returned"
    /\ pc = "close" => signal = "received"
    /\ (http_enabled /\ result = "ok") =>
        /\ close_calls = 1
        /\ signal = "received"

\* C7: a run that declares http completes the entry point, then blocks until
\* the shutdown signal is delivered, then calls close on the http resource
\* exactly once and returns success; close happens neither before the entry
\* point returned nor before the signal, and once the signal is delivered
\* the run ends closed and successful.
C7_HttpWaitsThenCloses ==
    /\ []C7_Order
    /\ (signal = "received") ~> (result = "ok" /\ close_calls = 1)

C7_Witness ==
    /\ http_enabled
    /\ result = "ok"
    /\ close_calls = 1
    /\ signal = "received"
    /\ data["host"]["http"].closed

----------------------------------------------------------------------------
(* C8 *)

\* C8: when the entry-point call fails, the run ends in failure and takes no
\* further step: the shutdown signal is never awaited and close is never
\* called, also when http is declared.
C8_TrapEndsRun ==
    (entry = "trapped" \/ failed_at \in {"get_start", "call_start"}) =>
        /\ pc = "done"
        /\ result = "err"
        /\ error.kind = "callee"
        /\ signal = "not_awaited"
        /\ close_calls = 0
        /\ ~ENABLED Next

C8_Witness ==
    /\ entry = "trapped"
    /\ http_enabled
    /\ result = "err"

----------------------------------------------------------------------------
(* C9 *)

\* C9: when resolution, the build of the host environment, the build of a
\* guest environment or the adoption fails, the run ends with that error
\* and the entry point is never invoked: a run that failed before the entry
\* point took no further step, and the entry point is invoked only with
\* every environment it needs built and none discarded.
C9_FailureBeforeStart ==
    /\ failed_at \in BeforeStart =>
        /\ pc = "done"
        /\ result \in {"err", "panic"}
        /\ error # NoError
        /\ entry = "not_started"
        /\ ~ENABLED Next
    /\ (\E e \in Envs : stage[e] = "dropped") => entry = "not_started"
    /\ entry # "not_started" =>
        /\ stage["host"] = "instance"
        /\ stage["events_guest"] = IF events_enabled THEN "instance" ELSE "none"
        /\ stage["http_guest"] = IF http_enabled THEN "instance" ELSE "none"

C9_Witness ==
    /\ failed_at = "build"
    /\ env = "http_guest"
    /\ stage["http_guest"] = "dropped"
    /\ stage["host"] = "instance"
    /\ result = "err"
    /\ entry = "not_started"

----------------------------------------------------------------------------
(* C10 *)

\* the last declaration whose canonical key is key
LastWithKey(key) ==
    CHOOSE i \in 1..Len(Caps) :
        /\ CanonicalKey(Caps[i]) = key
        /\ \A j \in (i + 1)..Len(Caps) : CanonicalKey(Caps[j]) # key

\* C10: declaring two implementors of one kind is not rejected: the table
\* of a successful build holds, under each canonical key, one entry, the
\* resource of the last declaration of that key.
C10_LaterOverwrites ==
    \A e \in Envs : Returned(e) =>
        /\ DOMAIN data[e] = {CanonicalKey(Caps[i]) : i \in 1..Len(Caps)}
        /\ \A key \in DOMAIN data[e] :
            data[e][key].implementor = Caps[LastWithKey(key)]

C10_Witness ==
    /\ Returned("host")
    /\ toml.secret_store
    /\ Len(Caps) >= 2
    /\ Caps[1] = "kv.filesystem"
    /\ Caps[2] = "kv.azblob"
    /\ \A i \in 1..Len(Caps) : CanonicalKey(Caps[i]) = "kv"
    /\ DOMAIN data["host"] = {"kv"}
    /\ data["host"]["kv"].implementor = Caps[Len(Caps)]
    /\ pc = "done"
    /\ result = "ok"

----------------------------------------------------------------------------
(* C11 *)

\* the canonical keys
AllKeys == {CanonicalKey(name) : name \in AcceptedNames}

\* how many link_capability calls of the build of e were made under key
LinkCount(e, key) ==
    Cardinality({i \in 1..Len(linked[e]) : linked[e][i] = key})

\* how many declarations have the canonical key key
DeclaredCount(key) ==
    Cardinality({i \in 1..Len(Caps) : CanonicalKey(Caps[i]) = key})

\* C11 as claimed: each key is inserted exactly once during linking across
\* the whole run, the guest builds for events and http included.
C11_InsertedOnce ==
    \A key \in AllKeys :
        LinkCount("host", key) + LinkCount("events_guest", key)
            + LinkCount("http_guest", key) <= 1

\* in each build that returned, a key is linked once for every declaration
\* of that key, and the table holds an entry under exactly the linked keys
C11_LinkedPerDeclaration ==
    \A e \in Envs : Returned(e) =>
        \A key \in AllKeys :
            /\ LinkCount(e, key) = DeclaredCount(key)
            /\ key \in DOMAIN data[e] <=> DeclaredCount(key) >= 1

\* a step removes an entry only by discarding the builder of a failed
\* build, which ends the run; the entries of a returned build keep their
\* kind and implementor
C11_UpdatedInPlace ==
    /\ (\E e \in Envs : ~(DOMAIN data[e] \subseteq DOMAIN data'[e])) =>
        /\ result' \in {"err", "panic"}
        /\ pc' = "done"
    /\ \A e \in Envs : Returned(e) =>
        \A key \in DOMAIN data[e] \cap DOMAIN data'[e] :
            /\ data'[e][key].type = data[e][key].type
            /\ data'[e][key].implementor = data[e][key].implementor

\* C11 as amended: a table holds at most one entry per scheme key; in every
\* build, the host's and each guest's, a key is linked once for every
\* declaration of that key, a later link replacing the entry; once a build
\* has returned, its entries are only updated in place, and no entry is
\* removed while the run is active.
C11_OneEntryRelinked ==
    /\ []C11_LinkedPerDeclaration
    /\ [][C11_UpdatedInPlace]_vars

C11_Witness ==
    /\ result = "ok"
    /\ events_enabled
    /\ http_enabled
    /\ LinkCount("host", "events") + LinkCount("events_guest", "events")
           + LinkCount("http_guest", "events") >= 3
    /\ data["host"]["http"].closed
    /\ data["host"]["events"].guest = "events_guest"

----------------------------------------------------------------------------
(* C12 *)

\* C12: a secret store is required exactly for kv, mq, lockd and pubsub, and
\* when it is absent the run fails with a message that names the kind of
\* the offending declaration, so that declarations of different kinds never
\* fail with the same message.
C12_KindSpecificMessage ==
    /\ \A e \in Envs : \A i \in 1..Len(linked[e]) :
        CanonicalKey(Caps[i]) \in SecretStoreKeys => toml.secret_store
    /\ (result = "err" /\ error.kind = "missing_secret_store") =>
        /\ ~toml.secret_store
        /\ CanonicalKey(Caps[idx + 1]) \in SecretStoreKeys
        /\ error.capability = CanonicalKey(Caps[idx + 1])

----------------------------------------------------------------------------
(* C13 *)

\* C13: a declared name the match does not recognize makes the build fail
\* with one error, and the names that error enumerates are exactly the names
\* the match accepts: none is missing and none of the listed is rejected.
C13_InvalidUrlListsAccepted ==
    /\ (toml.capability.some /\ \E i \in 1..Len(Caps) : MatchArm(Caps[i]) = "invalid")
        => /\ \A e \in Envs : ~Returned(e)
           /\ result # "ok"
    /\ (result = "err" /\ error.kind = "invalid_url") =>
        /\ MatchArm(Caps[idx + 1]) = "invalid"
        /\ Caps[idx + 1] \notin error.names
        /\ \A name \in AcceptedNames : name \in error.names
        /\ \A name \in error.names : MatchArm(name) # "invalid"
        /\ \A name \in DeclarableNames :
            name \in error.names <=> MatchArm(name) # "invalid"

C13_Witness ==
    /\ result = "err"
    /\ error.kind = "invalid_url"
    /\ Caps[idx + 1] = "kv.redis"
    /\ Len(linked[env]) >= 1
    /\ Cardinality(error.names) = Cardinality(AcceptedNames)

----------------------------------------------------------------------------
(* C14 *)

\* C14: at most one call executes inside an adopted guest at a time: the
\* guest is handed to the resource only behind mutexes, and whatever the
\* interleaving of inbound requests and events, no two calls into the same
\* guest overlap.
C14_OneCallPerGuest ==
    \A g \in Guests :
        /\ inflight[g] <= 1
        /\ (GuestKey(g) \in DOMAIN data["host"]
                /\ data["host"][GuestKey(g)].guest = g) => guarded[g]
        /\ inflight[g] > 0 =>
            /\ guarded[g]
            /\ stage[g] = "instance"
            /\ data["host"][GuestKey(g)].guest = g

C14_Witness ==
    /\ inbound >= 2
    /\ inflight["events_guest"] = 1
    /\ inflight["http_guest"] = 1
    /\ entry = "running"

----------------------------------------------------------------------------
(* C15 *)

----------------------------------------------------------------------------
(* C16 *)

\* the entry point leaves running only by the outcome of its own call
C16_CallEndsItself ==
    (entry = "running" /\ entry' # "running") =>
        /\ pc = "call_start"
        /\ \/ entry' = "returned" /\ pc' = "after_start" /\ result' = "none"
           \/ /\ entry' = "trapped"
              /\ result' = "err"
              /\ error' = CalleeError("_start")

\* the delivery of CTRL+C during _start changes nothing of handle_run
C16_SignalUnseen ==
    (~early /\ early') =>
        /\ entry = "running"
        /\ UNCHANGED <<pc, entry, signal, result, error, close_calls, data>>

\* the signal is received only while it is awaited, after _start returned
C16_SignalOnlyAwaited ==
    /\ entry \in {"not_started", "running", "returned", "trapped"}
    /\ signal # "not_awaited" => entry = "returned" /\ http_enabled
    /\ (early /\ ~http_enabled /\ pc = "done") =>
        result = IF entry = "returned" THEN "ok" ELSE "err"

----------------------------------------------------------------------------
(* C17 *)

\* C17: the two internal errors of get_resource are unreachable in
\* handle_run: whenever get_resource is about to be called for "events" or
\* "http", the table of the host holds that key with a resource of the
\* requested type, also with duplicate or multiple declarations.
C17_GetResourceFinds ==
    /\ result # "panic" \/ error.kind \notin {"internal_no_key", "internal_downcast"}
    /\ pc = "adopt_events" =>
        GetResource(data["host"], "events", "Events") = "ok"
    /\ pc \in {"adopt_http", "close"} =>
        GetResource(data["host"], "http", "Http") = "ok"

C17_Witness ==
    /\ pc = "close"
    /\ DeclaredCount("http") >= 2
    /\ events_enabled
    /\ GetResource(data["host"], "http", "Http") = "ok"

----------------------------------------------------------------------------
(* C18 *)

\* the resolver of the specification: http and events by exact match first,
\* then the implementor sets of each kind
ReferenceArm(name) ==
    IF name = "http" THEN "http"
    ELSE IF name = "events" THEN "events"
    ELSE IF name \in KV_HOST_IMPLEMENTORS THEN "kv"
    ELSE IF name \in MQ_HOST_IMPLEMENTORS THEN "mq"
    ELSE IF name \in LOCKD_HOST_IMPLEMENTORS THEN "lockd"
    ELSE IF name \in PUBSUB_HOST_IMPLEMENTORS THEN "pubsub"
    ELSE IF name \in CONFIGS_HOST_IMPLEMENTORS THEN "configs"
    ELSE "invalid"

\* the kinds a name belongs to
KindsOf(name) ==
    {k \in {"events", "http", "kv", "mq", "lockd", "pubsub", "configs"} :
        \/ k = "events" /\ name = "events"
        \/ k = "http" /\ name = "http"
        \/ k = "kv" /\ name \in KV_HOST_IMPLEMENTORS
        \/ k = "mq" /\ name \in MQ_HOST_IMPLEMENTORS
        \/ k = "lockd" /\ name \in LOCKD_HOST_IMPLEMENTORS
        \/ k = "pubsub" /\ name \in PUBSUB_HOST_IMPLEMENTORS
        \/ k = "configs" /\ name \in CONFIGS_HOST_IMPLEMENTORS}

\* C18: the arm build_store_instance chooses for a name (events, kv, mq,
\* lockd, pubsub, configs, then http) is the kind the resolver of the
\* specification chooses (http and events first, then the sets), for every
\* name the build inspects, because no name belongs to two kinds.
C18_ArmOrderIrrelevant ==
    \A e \in Envs : \A i \in 1..Len(inspected[e]) :
        LET name == inspected[e][i] IN
            /\ MatchArm(name) = ReferenceArm(name)
            /\ Cardinality(KindsOf(name)) <= 1
            /\ i <= Len(linked[e]) =>
                /\ KindsOf(name) = {ReferenceArm(name)}
                /\ linked[e][i] = IF ReferenceArm(name) \in {"events", "http"}
                                  THEN name ELSE ReferenceArm(name)

C18_Witness ==
    /\ Len(inspected["host"]) = 3
    /\ inspected["host"][1] = "http"
    /\ inspected["host"][2] = "kv.azblob"
    /\ inspected["host"][3] = "kv.redis"
    /\ linked["host"] = <<"http", "kv">>
    /\ error.kind = "invalid_url"

====
